---- MODULE Spec2Model ----
(***************************************************************************)
(* OrderMapContext (secretflow/ml/boost/sgb_v/core/split_tree_trainer/     *)
(* order_map_context.py): the per-partition quantile cutter (_qcut) and    *)
(* the context object that build_maps fills and the six accessors read.    *)
(*                                                                         *)
(* Feature values are float64 numbers; the model draws them from small     *)
(* integers, which float64 represents exactly, so float(v) keeps the value *)
(* and the comparisons of the code are the integer comparisons.            *)
(***************************************************************************)
EXTENDS Integers, Sequences, FiniteSets, TLC

\* ---------------------------------------------------------------- bounds
\* The matrices passed to build_maps: at most MaxRows samples, MaxCols
\* features and MaxCells cells, values 1..MaxVal, buckets 1..MaxBuckets.
MaxRows == 4
MaxCols == 2
MaxCells == 4
MaxVal == 4
MaxBuckets == 3
\* get_feature_bucket_at is called with the indices -1..MaxIndex.
MaxIndex == 1
\* The caller that builds again and again draws from smaller matrices.
RebuildRows == 2
RebuildVal == 2
RebuildBuckets == 2

\* ------------------------------------------------------ program constants
\* float('inf'), the padding sentinel: above every feature value.
Inf == 2147483647
\* dtype=np.int8 of the order map: the largest value it holds.
Int8Max == 127

VARIABLES
  order_map,        \* self.order_map
  split_points,     \* self.split_points
  feature_buckets,  \* self.feature_buckets
  features,         \* self.features
  buckets,          \* self.buckets
  order_map_shape,  \* self.order_map_shape (no attribute until a build ends)
  call,             \* the arguments (x, buckets) of the build_maps call
  build_result,     \* how the last build_maps call ended
  ret               \* what the last accessor call gave its caller

vars == <<order_map, split_points, feature_buckets, features, buckets,
          order_map_shape, call, build_result, ret>>

\* ------------------------------------------------------------ Python values
None == [tag |-> "None"]
NoAttr == [tag |-> "no attribute"]
Val(v) == [tag |-> "val", v |-> v]

\* A matrix x: its shape and its columns x[:, f], each a sequence of rows.
Matrix(r, c, cols) == [shape |-> <<r, c>>, cols |-> cols]

RECURSIVE SeqsOfLen(_, _)
SeqsOfLen(S, n) ==
  IF n = 0 THEN {<<>>}
  ELSE {Append(s, v) : s \in SeqsOfLen(S, n - 1), v \in S}

Values == 1..MaxVal

Shapes == {rc \in (0..MaxRows) \X (0..MaxCols) : rc[1] * rc[2] <= MaxCells}

Matrices ==
  UNION {{Matrix(rc[1], rc[2], cols) : cols \in SeqsOfLen(SeqsOfLen(Values, rc[1]), rc[2])}
         : rc \in Shapes}

\* A column with more distinct values than int8 has non-negative values.
WideRows == Int8Max + 2
WideColumn == [i \in 1..WideRows |-> ((i * 50) % WideRows) + 1]
WideCalls ==
  {[x |-> Matrix(WideRows, 1, <<WideColumn>>), buckets |-> b]
   : b \in {WideRows - 2, WideRows - 1, WideRows}}

\* Before any call: no matrix was passed.
NoCall == [x |-> Matrix(0, 0, <<>>), buckets |-> 0]

SmallCalls == {[x |-> x, buckets |-> b] : x \in Matrices, b \in 1..MaxBuckets}

Calls == SmallCalls \cup WideCalls

RebuildCalls ==
  {c \in SmallCalls :
     /\ c.x.shape[1] <= RebuildRows
     /\ c.buckets <= RebuildBuckets
     /\ \A f \in 1..c.x.shape[2] : \A i \in 1..c.x.shape[1] : c.x.cols[f][i] <= RebuildVal}

\* ------------------------------------------------------------------- _qcut
\* np.sort(x, axis=0): the values of x in ascending order. Element i goes to
\* the place given by the number of elements below it, equal ones keeping
\* their order.
SortAsc(s) ==
  LET n == Len(s)
      place == [i \in 1..n |->
                  Cardinality({j \in 1..n : s[j] < s[i] \/ (s[j] = s[i] /\ j <= i)})] \o <<>>
  IN [k \in 1..n |-> s[CHOOSE i \in 1..n : place[i] = k]] \o <<>>

\* math.ceil(a / b) for a >= 0, b > 0.
CeilDiv(a, b) == (a + b - 1) \div b

\* The locals of the walk over sorted_x, as the constructor part of _qcut
\* leaves them; last_value is <<>> for None and <<v>> for a value.
WalkInit(n, b) ==
  [value_category |-> <<>>,
   last_value |-> <<>>,
   split_points |-> <<>>,
   remained_count |-> n,
   expected_bin_count |-> CeilDiv(n, b),
   current_bin_count |-> 0,
   stop |-> "run"]

\* `if len(value_category) <= self.buckets: value_category.append(v)`
CollectCategory(cats, v, b) == IF Len(cats) <= b THEN Append(cats, v) ELSE cats

\* `if len(split_points) == self.buckets - 1: break`
WalkBreaks(sps, b) == Len(sps) = b - 1

\* One iteration of `for v in sorted_x` (the body of the loop).
WalkStep(w, v, b) ==
  IF w.last_value # <<v>>
  THEN LET cats == CollectCategory(w.value_category, v, b) IN
       IF w.current_bin_count >= w.expected_bin_count
       THEN LET sps == Append(w.split_points, v)
                rem == w.remained_count - w.current_bin_count
            IN IF WalkBreaks(sps, b)
               THEN [w EXCEPT !.value_category = cats,
                              !.split_points = sps,
                              !.stop = "break"]
               ELSE IF b - Len(sps) = 0
               THEN [w EXCEPT !.value_category = cats,
                              !.split_points = sps,
                              !.remained_count = rem,
                              !.stop = "ZeroDivisionError"]
               ELSE [w EXCEPT !.value_category = cats,
                              !.split_points = sps,
                              !.remained_count = rem,
                              !.expected_bin_count = CeilDiv(rem, b - Len(sps)),
                              !.current_bin_count = 1,
                              !.last_value = <<v>>]
       ELSE [w EXCEPT !.value_category = cats,
                      !.last_value = <<v>>,
                      !.current_bin_count = w.current_bin_count + 1]
  ELSE [w EXCEPT !.current_bin_count = w.current_bin_count + 1]

\* The loop `for v in sorted_x`, from element i on.
RECURSIVE Walk(_, _, _, _)
Walk(w, sorted_x, i, b) ==
  IF i > Len(sorted_x) \/ w.stop # "run" THEN w
  ELSE Walk(WalkStep(w, sorted_x[i], b), sorted_x, i + 1, b)

\* The slice written as value_category[0:]: the minimum stays a split point.
CategorySplitPointsKeepMin(cats) == cats

\* `split_points = value_category[1:]`
CategorySplitPoints(cats) == SubSeq(cats, 2, Len(cats))

\* The maximum appended without the comparison.
MaxIsMissingAlways(sps, sorted_x) == TRUE

\* `split_points[-1] != sorted_x[-1]`
MaxIsMissing(sps, sorted_x) == sps[Len(sps)] # sorted_x[Len(sorted_x)]

\* The tie resolved downwards: `return pos + step`.
BinOnEqualBelow(pos, step) == pos + step

\* `if x == v: return pos + step + 1`
BinOnEqual(pos, step) == pos + step + 1

\* upper_bound_bin: the `while count > 0` loop, from (pos, count) on.
RECURSIVE UpperBoundLoop(_, _, _, _)
UpperBoundLoop(sps, xv, pos, count) ==
  IF count > 0
  THEN LET step == count \div 2
           v == sps[pos + step + 1]
       IN IF xv = v THEN BinOnEqual(pos, step)
          ELSE IF xv > v THEN UpperBoundLoop(sps, xv, pos + step + 1, count - (step + 1))
          ELSE UpperBoundLoop(sps, xv, pos, step)
  ELSE pos

upper_bound_bin(sps, xv) == UpperBoundLoop(sps, xv, 0, Len(sps))

\* `split_points = list(map(float, split_points))` on exactly representable values.
ToFloat(v) == v

\* The split points after the walk: the category path, the equal-frequency path
\* with the maximum appended, or the IndexError of split_points[-1] on an empty list.
ChooseSplitPoints(w, sorted_x, b) ==
  IF Len(w.value_category) <= b
  THEN [status |-> "ok", path |-> "category",
        split_points |-> CategorySplitPoints(w.value_category)]
  ELSE IF w.split_points = <<>>
  THEN [status |-> "IndexError", path |-> "frequency", split_points |-> <<>>]
  ELSE IF MaxIsMissing(w.split_points, sorted_x)
  THEN [status |-> "ok", path |-> "frequency",
        split_points |-> Append(w.split_points, sorted_x[Len(sorted_x)])]
  ELSE [status |-> "ok", path |-> "frequency", split_points |-> w.split_points]

\* _qcut(x) with self.buckets = b: what it returns, or the exception it raises.
Qcut(col, b) ==
  LET sorted_x == SortAsc(col)
      n == Len(sorted_x)
  IN IF n = 0
     THEN [status |-> "AssertionError", path |-> "none", bins |-> <<>>, split_points |-> <<>>]
     ELSE LET w == Walk(WalkInit(n, b), sorted_x, 1, b) IN
          IF w.stop = "ZeroDivisionError"
          THEN [status |-> "ZeroDivisionError", path |-> "none",
                bins |-> <<>>, split_points |-> <<>>]
          ELSE LET c == ChooseSplitPoints(w, sorted_x, b) IN
               IF c.status # "ok"
               THEN [status |-> c.status, path |-> c.path,
                     bins |-> <<>>, split_points |-> <<>>]
               ELSE LET sps == [k \in 1..Len(c.split_points) |-> ToFloat(c.split_points[k])]
                    IN [status |-> "ok", path |-> c.path,
                        bins |-> [i \in 1..Len(col) |-> upper_bound_bin(sps, col[i])],
                        split_points |-> sps]

\* -------------------------------------------------------------- build_maps
\* A value stored into the np.int8 order map keeps its low eight bits.
StoreInt8(v) == ((v + Int8Max + 1) % (2 * (Int8Max + 1))) - (Int8Max + 1)

\* np.zeros((x.shape[0], x.shape[1]), dtype=np.int8), by columns.
Zeros(r, c) == [f \in 1..c |-> [i \in 1..r |-> 0]]

\* `total_buckets = len(split_point)`
InitialTotal(split_point) == Len(split_point)

\* `while total_buckets <= self.buckets: total_buckets += 1; split_point.append(inf)`
RECURSIVE PadLoop(_, _, _)
PadLoop(total_buckets, split_point, b) ==
  IF total_buckets <= b
  THEN PadLoop(total_buckets + 1, Append(split_point, Inf), b)
  ELSE [total_buckets |-> total_buckets, split_point |-> split_point]

\* One iteration of `for f in range(x.shape[1])` on the fields written so far.
BuildStep(st, x, f, b) ==
  LET q == Qcut(x.cols[f], b) IN
  IF q.status # "ok"
  THEN [st EXCEPT !.status = q.status]
  ELSE LET p == PadLoop(InitialTotal(q.split_points), q.split_points, b) IN
       [st EXCEPT !.order_map[f] = [i \in 1..Len(q.bins) |-> StoreInt8(q.bins[i])],
                  !.split_points = Append(st.split_points, p.split_point),
                  !.feature_buckets = Append(st.feature_buckets, p.total_buckets)]

RECURSIVE BuildLoop(_, _, _, _)
BuildLoop(st, x, f, b) ==
  IF f > x.shape[2] \/ st.status # "ok" THEN st
  ELSE BuildLoop(BuildStep(st, x, f, b), x, f + 1, b)

\* The fields build_maps(x, b) leaves and how it ends: "ok", or the exception
\* that a column's _qcut raised, with the fields as written until then.
BuildOutcome(x, b) ==
  BuildLoop([order_map |-> Zeros(x.shape[1], x.shape[2]),
             split_points |-> <<>>,
             feature_buckets |-> <<>>,
             status |-> "ok"], x, 1, b)

NoRet == [op |-> "none", status |-> "none", value |-> None]

build_maps(c) ==
  LET o == BuildOutcome(c.x, c.buckets) IN
  /\ order_map' = Val([shape |-> c.x.shape, cols |-> o.order_map])
  /\ split_points' = Val(o.split_points)
  /\ feature_buckets' = Val(o.feature_buckets)
  /\ features' = Val(c.x.shape[2])
  /\ buckets' = Val(c.buckets)
  /\ order_map_shape' = IF o.status = "ok" THEN Val(c.x.shape) ELSE order_map_shape
  /\ build_result' = o.status
  /\ ret' = NoRet

\* ----------------------------------------------------------------- accessors
Returns(op, value) ==
  /\ ret' = [op |-> op, status |-> "returned", value |-> value]
  /\ UNCHANGED <<order_map, split_points, feature_buckets, features, buckets,
                 order_map_shape, call, build_result>>

Raises(op, error) ==
  /\ ret' = [op |-> op, status |-> error, value |-> None]
  /\ UNCHANGED <<order_map, split_points, feature_buckets, features, buckets,
                 order_map_shape, call, build_result>>

get_order_map == Returns("get_order_map", order_map)

get_features == Returns("get_features", features)

get_feature_buckets == Returns("get_feature_buckets", feature_buckets)

\* self.feature_buckets[index]: None is not subscriptable; a list takes the
\* indices -len .. len - 1.
get_feature_bucket_at(index) ==
  IF feature_buckets = None
  THEN Raises("get_feature_bucket_at", "TypeError")
  ELSE LET n == Len(feature_buckets.v) IN
       IF index >= 0 /\ index < n
       THEN Returns("get_feature_bucket_at", Val(feature_buckets.v[index + 1]))
       ELSE IF index < 0 /\ index >= -n
       THEN Returns("get_feature_bucket_at", Val(feature_buckets.v[n + index + 1]))
       ELSE Raises("get_feature_bucket_at", "IndexError")

get_split_points == Returns("get_split_points", split_points)

get_order_map_shape ==
  IF order_map_shape = NoAttr
  THEN Raises("get_order_map_shape", "AttributeError")
  ELSE Returns("get_order_map_shape", order_map_shape)

Accessor ==
  \/ get_order_map
  \/ get_features
  \/ get_feature_buckets
  \/ \E index \in (-1)..MaxIndex : get_feature_bucket_at(index)
  \/ get_split_points
  \/ get_order_map_shape

\* ------------------------------------------------------------ specifications
\* __init__: every field None; order_map_shape is not set at all.
Constructed ==
  /\ order_map = None
  /\ split_points = None
  /\ feature_buckets = None
  /\ features = None
  /\ buckets = None
  /\ order_map_shape = NoAttr
  /\ build_result = "not called"
  /\ ret = NoRet

\* The caller of the spec's control flow: construct, build once, then query.
Init == Constructed /\ call \in Calls

BuildOnce ==
  /\ build_result = "not called"
  /\ build_maps(call)
  /\ UNCHANGED call

Next == BuildOnce \/ Accessor

Spec == Init /\ [][Next]_vars

\* The build alone, for what it computes from its arguments.
NextBuild == BuildOnce

SpecBuild == Init /\ [][NextBuild]_vars

\* A caller that keeps one context and builds it again with new arguments.
InitRebuild == Constructed /\ call = NoCall

Rebuild ==
  \E c \in RebuildCalls :
    /\ build_maps(c)
    /\ call' = c

NextRebuild == Rebuild \/ Accessor

SpecRebuild == InitRebuild /\ [][NextRebuild]_vars

\* ------------------------------------------------------- what the claims read
Built == build_result = "ok"
Failed == build_result \notin {"not called", "ok"}

Rows == call.x.shape[1]
Cols == call.x.shape[2]
X(i, f) == call.x.cols[f][i]
OM(i, f) == order_map.v.cols[f][i]
SP(f) == split_points.v[f]
FB(f) == feature_buckets.v[f]
Budget == buckets.v

IsFinite(v) == v # Inf
FinitePoints(sp) == SelectSeq(sp, IsFinite)
DistinctValues(f) == {X(i, f) : i \in 1..Rows}
ColumnMax(f) == CHOOSE m \in DistinctValues(f) : \A v \in DistinctValues(f) : v <= m

\* The features whose cut the last build recorded (all of them when it succeeded).
Recorded == IF split_points = None THEN {} ELSE 1..Len(split_points.v)

\* sp[b-1] < v <= sp[b], with sp[-1] = -infinity (b counts from 0).
RightClosed(sp, v, b) ==
  /\ b \in 0..(Len(sp) - 1)
  /\ (b = 0 \/ sp[b] < v)
  /\ v <= sp[b + 1]

\* sp[b-1] <= v < sp[b], with sp[-1] = -infinity (b counts from 0).
LeftClosed(sp, v, b) ==
  /\ b \in 0..(Len(sp) - 1)
  /\ (b = 0 \/ sp[b] <= v)
  /\ v < sp[b + 1]

\* ------------------------------------------------------------------- claims

\* C1 as stated: after a successful build_maps every order_map[i, f] is the
\* index b with split_points[f][b-1] < x[i, f] <= split_points[f][b] (the
\* right-closed rule: a value equal to a split point lies in the bucket whose
\* upper bound is that split point).
C1_RightClosedAsStated ==
  Built => \A f \in 1..Cols : \A i \in 1..Rows : RightClosed(SP(f), X(i, f), OM(i, f))

\* C1 amended: after a successful build_maps every order_map[i, f] is the int8
\* value of the one index b with split_points[f][b-1] <= x[i, f] <
\* split_points[f][b] (left-closed: a value equal to a split point lies in the
\* bucket whose lower bound is that split point); the entry is b itself
\* whenever b <= 127.
C1_LeftClosedIndex ==
  Built =>
    \A f \in 1..Cols : \A i \in 1..Rows :
      LET hits == {b \in 0..(Len(SP(f)) - 1) : LeftClosed(SP(f), X(i, f), b)} IN
      /\ Cardinality(hits) = 1
      /\ \A b \in hits :
           /\ OM(i, f) \in (-(Int8Max + 1))..Int8Max
           /\ (OM(i, f) - b) % (2 * (Int8Max + 1)) = 0
           /\ (b <= Int8Max => OM(i, f) = b)

\* C1 witness: a built map holds a sample equal to a finite split point of its
\* feature, stored in the bucket above that split point.
C1_TieWitness ==
  /\ Built
  /\ \E f \in 1..Cols : \E i \in 1..Rows : \E k \in 1..Len(SP(f)) :
       /\ SP(f)[k] = X(i, f)
       /\ OM(i, f) = k

\* C2 as stated: after a successful build_maps every feature's split-point
\* list has exactly `buckets` entries, finite split points then only +infinity.
C2_PaddedToBudget ==
  Built =>
    \A f \in 1..Cols :
      /\ Len(SP(f)) = Budget
      /\ \A k \in 1..Len(SP(f)) : \A m \in k..Len(SP(f)) : SP(f)[k] = Inf => SP(f)[m] = Inf

\* C3 as stated: the quantile cutter returns at most buckets - 1 non-sentinel
\* split points for every non-empty column.
C3_AtMostBudgetMinusOne ==
  \A f \in Recorded : Len(FinitePoints(SP(f))) <= Budget - 1

\* C3 amended: the quantile cutter returns at most `buckets` non-sentinel split
\* points for every non-empty column, and at most buckets - 1 for a column with
\* at most `buckets` distinct values.
C3_AtMostBudget ==
  \A f \in Recorded :
    /\ Len(FinitePoints(SP(f))) <= Budget
    /\ (Cardinality(DistinctValues(f)) <= Budget => Len(FinitePoints(SP(f))) <= Budget - 1)

\* C3 witness: a built feature with more distinct values than buckets holds
\* exactly `buckets` finite split points, the last one the appended maximum.
C3_FullWitness ==
  /\ Built
  /\ \E f \in 1..Cols :
       /\ Cardinality(DistinctValues(f)) > Budget
       /\ Len(FinitePoints(SP(f))) = Budget
       /\ SP(f)[Budget] = ColumnMax(f)

\* C4 as stated: after a successful build_maps a feature with k <= buckets
\* distinct values has recorded bucket count k.
C4_BucketCountIsCardinality ==
  Built =>
    \A f \in 1..Cols :
      Cardinality(DistinctValues(f)) <= Budget => FB(f) = Cardinality(DistinctValues(f))

\* C5 as stated: after a successful build_maps every order_map[i, f] lies in
\* 0 .. feature_buckets[f] - 1.
C5_IndexInRange ==
  Built => \A f \in 1..Cols : \A i \in 1..Rows : OM(i, f) >= 0 /\ OM(i, f) <= FB(f) - 1

\* C6 as stated: after a successful build_maps, for a feature with at least two
\* distinct values the column maximum is <= the last non-sentinel split point.
C6_MaxCovered ==
  Built =>
    \A f \in 1..Cols :
      Cardinality(DistinctValues(f)) >= 2 =>
        LET fin == FinitePoints(SP(f)) IN
        /\ fin # <<>>
        /\ ColumnMax(f) <= fin[Len(fin)]

\* C7: the non-sentinel split points the quantile cutter returns are strictly
\* ascending, on the category path and on the equal-frequency path.
C7_StrictlyAscending ==
  \A f \in Recorded :
    LET fin == FinitePoints(SP(f)) IN
    \A k \in 1..(Len(fin) - 1) : fin[k] < fin[k + 1]

\* C7 witness: a built feature on the equal-frequency path whose split points
\* end with the appended maximum, after at least one emitted split point.
C7_AppendedMaxWitness ==
  /\ Built
  /\ \E f \in 1..Cols :
       LET fin == FinitePoints(SP(f)) IN
       /\ Cardinality(DistinctValues(f)) > Budget
       /\ Len(fin) >= 2
       /\ fin[Len(fin)] = ColumnMax(f)
       /\ \A i \in 1..Rows : X(i, f) = ColumnMax(f) => OM(i, f) = Len(fin)

\* C8 as stated: a build_maps call that fails leaves every derived field as it
\* was before the call.
C8_FailedBuildChangesNothing ==
  [][ret'.op = "none" /\ Failed'
       => /\ order_map' = order_map
          /\ split_points' = split_points
          /\ feature_buckets' = feature_buckets
          /\ features' = features
          /\ buckets' = buckets
          /\ order_map_shape' = order_map_shape]_vars

\* C9 as stated: before any build_maps call each accessor reports an error
\* instead of returning a value.
C9_UnbuiltAccessorsRaise ==
  (build_result = "not called" /\ ret.op # "none") => ret.status # "returned"

\* C10 as stated: build_maps on a matrix with at least one row and a positive
\* `buckets` completes without raising.
C10_OnlyEmptyColumnFails ==
  (Rows >= 1 /\ call.buckets >= 1) => ~Failed

====
